---- MODULE Spec2Model ----
(***************************************************************************)
(* Model of analyze_data.py: load a table, run three group-by aggregations *)
(* (top 3 by proportion, top 3 by proportion, top 3 by median), assemble   *)
(* an HTML document and write it to the output file.                       *)
(*                                                                         *)
(* Numbers.  Cells and statistics are integers:                            *)
(*   - a group key is 1..NumKeys (key order = the order groupby sorts in), *)
(*   - a flag is 1 (true) or 0 (false),                                    *)
(*   - a score is an integer number of 10^-5,                              *)
(*   - a proportion is an integer number of 10^-2 percent (0..10000),      *)
(*   - a median is an integer number of 10^-4,                             *)
(*   - NA is a missing cell, NaN the undefined float.                      *)
(* pandas semantics used: groupby drops rows whose key is missing and      *)
(* orders groups by key; count() counts non-missing values; sum() and      *)
(* median() skip missing values; 0/0 is NaN; the median of no value is     *)
(* NaN; sort_values puts NaN last; round is round-half-to-even.            *)
(***************************************************************************)
EXTENDS Integers, Sequences, FiniteSets, TLC

VARIABLES pc, fs, df, total_rows, result1, result2, result3,
          html_content, outFile, error, failedAt

vars == <<pc, fs, df, total_rows, result1, result2, result3,
          html_content, outFile, error, failedAt>>

\* ---------------------------------------------------------------- bounds
MaxRows == 4
NumKeys == 4
MaxRowsFaulty == 1

\* ------------------------------------------------------------- constants
TOP_N == 3
PERCENT == 100
PROPORTION_DECIMALS == 2
MEDIAN_DECIMALS == 4

NA == -1
NaN == -2

Columns == {"agent_type", "model_architecture", "task_category",
            "multimodal_capability", "bias_detection_score"}

Keys == 1..NumKeys
Flags == {0, 1}
Scores == {3, 15}

\* ---------------------------------------------------------------- helpers
RECURSIVE Pow10(_)
Pow10(n) == IF n = 0 THEN 1 ELSE 10 * Pow10(n - 1)

\* a score is a whole number of 10^-5: the scores in one rounding step of
\* the median
ScoresPerStep == Pow10(5 - MEDIAN_DECIMALS)

Min(a, b) == IF a <= b THEN a ELSE b

\* num/den rounded to the nearest integer, halves to the even neighbour
RoundHalfEven(num, den) ==
    LET q == num \div den
        r == num % den
    IN  IF 2 * r < den THEN q
        ELSE IF 2 * r > den THEN q + 1
        ELSE IF q % 2 = 0 THEN q ELSE q + 1

RECURSIVE SumSeq(_)
SumSeq(s) == IF s = <<>> THEN 0 ELSE Head(s) + SumSeq(Tail(s))

\* the ascending sequence of the elements of a set of integers
RECURSIVE SetToSortedSeq(_)
SetToSortedSeq(S) ==
    IF S = {} THEN <<>>
    ELSE LET m == CHOOSE x \in S : \A y \in S : x <= y
         IN  <<m>> \o SetToSortedSeq(S \ {m})

\* ascending insertion sort of a sequence of integers
RECURSIVE SortAsc(_)
Insert(x, s) ==
    LET k == Cardinality({i \in DOMAIN s : s[i] <= x})
    IN  SubSeq(s, 1, k) \o <<x>> \o SubSeq(s, k + 1, Len(s))
SortAsc(s) == IF s = <<>> THEN <<>> ELSE Insert(Head(s), SortAsc(Tail(s)))

\* ----------------------------------------------------------- group-by
\* df.groupby(col, dropna=False): the missing key makes a group
GroupKeys_KeepMissing(d, col) ==
    SetToSortedSeq({d.rows[i][col] : i \in DOMAIN d.rows})

\* df.groupby(col): the distinct non-missing keys, in ascending order
GroupKeys(d, col) ==
    SetToSortedSeq({d.rows[i][col] : i \in DOMAIN d.rows} \ {NA})

\* the cells of column valcol in the rows whose key is k, in row order
RowOfGroup(r, col, k) == r[col] = k
GroupCells(d, col, k, valcol) ==
    LET sel == SelectSeq(d.rows, LAMBDA r : RowOfGroup(r, col, k))
    IN  [i \in DOMAIN sel |-> sel[i][valcol]]

NotMissing(v) == v # NA

\* grouped.count(): the number of non-missing cells
GroupCount(cells) == Len(SelectSeq(cells, NotMissing))

\* grouped.sum(): the sum of the non-missing cells (true is 1, false is 0)
GroupSum(cells) == SumSeq(SelectSeq(cells, NotMissing))

\* (multimodal_counts / total_counts * 100).round(2)
Proportion(count, total) ==
    IF total = 0 THEN NaN
    ELSE RoundHalfEven(count * PERCENT * Pow10(PROPORTION_DECIMALS), total)

\* a median that takes the upper middle value of an even group
GroupMedian_UpperMiddle(cells) ==
    LET s == SortAsc(SelectSeq(cells, NotMissing))
        n == Len(s)
    IN  IF n = 0 THEN NaN
        ELSE RoundHalfEven(2 * s[n \div 2 + 1],
                           2 * ScoresPerStep)

\* grouped.median() then .round(4): twice the median is lo + hi
GroupMedian(cells) ==
    LET s == SortAsc(SelectSeq(cells, NotMissing))
        n == Len(s)
    IN  IF n = 0 THEN NaN
        ELSE LET twice == IF n % 2 = 1 THEN 2 * s[(n + 1) \div 2]
                          ELSE s[n \div 2] + s[n \div 2 + 1]
             IN  RoundHalfEven(twice,
                               2 * ScoresPerStep)

\* the frame of one record per group, in key order, before sorting
ProportionFrame(d, col) ==
    LET ks == GroupKeys(d, col)
    IN  [i \in DOMAIN ks |->
           LET cells == GroupCells(d, col, ks[i], "multimodal_capability")
           IN  [name |-> ks[i],
                proportion |-> Proportion(GroupSum(cells), GroupCount(cells)),
                count |-> GroupSum(cells),
                total |-> GroupCount(cells)]]

MedianFrame(d, col) ==
    LET ks == GroupKeys(d, col)
    IN  [i \in DOMAIN ks |->
           [name |-> ks[i],
            median |-> GroupMedian(
                          GroupCells(d, col, ks[i], "bias_detection_score"))]]

\* ------------------------------------------------------- sort and cut
\* a precedes-or-ties b in a descending sort with NaN last
Geq(a, b) == a # NaN /\ b # NaN /\ a >= b

\* sort_values(by) without ascending=False: non-decreasing, NaN last
SortOrderOk_Ascending(frame, by, p) ==
    /\ \A i, j \in DOMAIN frame :
         (i < j /\ frame[p[i]][by] # NaN /\ frame[p[j]][by] # NaN)
            => frame[p[i]][by] <= frame[p[j]][by]
    /\ \A i, j \in DOMAIN frame :
         (i < j /\ frame[p[i]][by] = NaN) =>
            (frame[p[j]][by] = NaN /\ p[i] < p[j])

\* sort_values(by, ascending=False): every order the sort may produce.
\* Records with a number come first in non-increasing order; the order of
\* records with equal numbers is left to the sort algorithm (numpy's
\* quicksort is not stable); records with NaN follow in frame order.
SortOrderOk(frame, by, p) ==
    /\ \A i, j \in DOMAIN frame :
         (i < j /\ frame[p[i]][by] # NaN /\ frame[p[j]][by] # NaN)
            => frame[p[i]][by] >= frame[p[j]][by]
    /\ \A i, j \in DOMAIN frame :
         (i < j /\ frame[p[i]][by] = NaN) =>
            (frame[p[j]][by] = NaN /\ p[i] < p[j])

SortValuesDesc(frame, by) ==
    LET n == Len(frame)
        perms == {p \in [1..n -> 1..n] :
                    /\ \A i, j \in 1..n : i # j => p[i] # p[j]
                    /\ SortOrderOk(frame, by, p)}
    IN  {[i \in 1..n |-> frame[p[i]]] : p \in perms}

\* .head(4): the cut one record too late
HeadN_OffByOne(s) == SubSeq(s, 1, Min(TOP_N + 1, Len(s)))

\* .head(3)
HeadN(s) == SubSeq(s, 1, Min(TOP_N, Len(s)))

\* ------------------------------------------------------- aggregations
KeyError == "KeyError"

analyze_agent_type_multimodal(d) ==
    IF ~ ({"agent_type", "multimodal_capability"} \subseteq d.columns)
    THEN {KeyError}
    ELSE {HeadN(s) : s \in SortValuesDesc(
                              ProportionFrame(d, "agent_type"), "proportion")}

analyze_model_architecture_multimodal(d) ==
    IF ~ ({"model_architecture", "multimodal_capability"} \subseteq d.columns)
    THEN {KeyError}
    ELSE {HeadN(s) : s \in SortValuesDesc(
                      ProportionFrame(d, "model_architecture"), "proportion")}

\* a median aggregation that raises on a table without rows
analyze_task_category_bias_median_RaisesOnEmpty(d) ==
    IF ~ ({"task_category", "bias_detection_score"} \subseteq d.columns)
          \/ d.rows = <<>>
    THEN {KeyError}
    ELSE {HeadN(s) : s \in SortValuesDesc(
                              MedianFrame(d, "task_category"), "median")}

analyze_task_category_bias_median(d) ==
    IF ~ ({"task_category", "bias_detection_score"} \subseteq d.columns)
    THEN {KeyError}
    ELSE {HeadN(s) : s \in SortValuesDesc(
                              MedianFrame(d, "task_category"), "median")}

\* ------------------------------------------------------------- inputs
DefaultRow == [agent_type |-> 1, model_architecture |-> 1,
               task_category |-> 1, multimodal_capability |-> 1,
               bias_detection_score |-> 10]

CellsOf(S) == <<NA>> \o SetToSortedSeq(S)

\* the rows that differ from DefaultRow in a key column and a value column
RowList(keycol, valcol, vals) ==
    LET ks == CellsOf(Keys)
        vs == CellsOf(vals)
    IN  [i \in 1..(Len(ks) * Len(vs)) |->
           [DefaultRow EXCEPT ![keycol] = ks[((i - 1) \div Len(vs)) + 1],
                              ![valcol] = vs[((i - 1) % Len(vs)) + 1]]]

\* the non-decreasing sequences of n indices in lo..hi
RECURSIVE NonDecreasing(_, _, _)
NonDecreasing(n, lo, hi) ==
    IF n = 0 THEN {<<>>}
    ELSE UNION {{<<v>> \o s : s \in NonDecreasing(n - 1, v, hi)} :
                    v \in lo..hi}

AgentRows == RowList("agent_type", "multimodal_capability", Flags)
ArchRows == RowList("model_architecture", "multimodal_capability", Flags)
TaskRows == RowList("task_category", "bias_detection_score", Scores)
RowLists == <<AgentRows, ArchRows, TaskRows>>

\* the rows of a row list whose flag is present
FlagPresent(rowlist) ==
    SelectSeq(rowlist, LAMBDA r : r["multimodal_capability"] # NA)
FlagPresentRowLists ==
    <<FlagPresent(AgentRows), FlagPresent(ArchRows), TaskRows>>

\* the table whose i-th row is rowlist[idx[i]]
Frame(cols, rowlist, idx) ==
    [columns |-> cols, rows |-> [i \in DOMAIN idx |-> rowlist[idx[i]]]]

NominalFs == [excel |-> TRUE, chartjs |-> TRUE, output |-> "ok"]
Absent == "absent"

\* the largest table read in an environment: MaxRows rows in the nominal
\* one, MaxRowsFaulty rows in the others
RowBound(f, out) ==
    IF f = NominalFs /\ out.state = Absent THEN MaxRows ELSE MaxRowsFaulty

\* --------------------------------------------------------- the report
NoFrame == [columns |-> {}, rows |-> <<>>]
NoHtml == [total_rows |-> -1, chartjs |-> FALSE,
           data1 |-> <<>>, data2 |-> <<>>, data3 |-> <<>>]

\* json.dumps(list of records): one JSON object per record, members in the
\* record's field order; NaN is written as the token NaN
JsonNumber(v) == IF v = NaN THEN "NaN" ELSE ToString(v)
JsonDumpsProportion(res) ==
    [i \in DOMAIN res |-> <<<<"name", ToString(res[i].name)>>,
                            <<"proportion", JsonNumber(res[i].proportion)>>,
                            <<"count", JsonNumber(res[i].count)>>,
                            <<"total", JsonNumber(res[i].total)>>>>]
JsonDumpsMedian(res) ==
    [i \in DOMAIN res |-> <<<<"name", ToString(res[i].name)>>,
                            <<"median", JsonNumber(res[i].median)>>>>]

generate_html(analysis1, analysis2, analysis3, rows) ==
    [total_rows |-> rows, chartjs |-> TRUE,
     data1 |-> JsonDumpsProportion(analysis1),
     data2 |-> JsonDumpsProportion(analysis2),
     data3 |-> JsonDumpsMedian(analysis3)]

\* ------------------------------------------------------------ the run
Init ==
    /\ pc = "load"
    /\ fs \in [excel : BOOLEAN, chartjs : BOOLEAN,
                output : {"ok", "denied", "full"}]
    /\ outFile \in {[state |-> Absent, content |-> NoHtml],
                    [state |-> "stale", content |-> NoHtml]}
    /\ df = NoFrame
    /\ total_rows = 0
    /\ result1 = <<>>
    /\ result2 = <<>>
    /\ result3 = <<>>
    /\ html_content = NoHtml
    /\ error = "none"
    /\ failedAt = "none"

Fail(step, err) ==
    /\ pc' = "failed"
    /\ failedAt' = step
    /\ error' = err

\* pd.read_excel succeeded with table d
Loaded(d) ==
    /\ df' = d
    /\ total_rows' = Len(d.rows)
    /\ pc' = "analysis1"
    /\ UNCHANGED <<error, failedAt>>

\* the keys of every grouping column are the first keys: the keys 1..g for
\* some g
FirstKeys(d) ==
    \A c \in {"agent_type", "model_architecture", "task_category"} :
       \A k \in Keys :
          (k > 1 /\ \E i \in DOMAIN d.rows : d.rows[i][c] = k)
             => \E i \in DOMAIN d.rows : d.rows[i][c] = k - 1

\* df = load_data(); total_rows = len(df).  The workbook holds a table of
\* rows drawn from one of the row lists, or a table whose header lacks one
\* expected column.  No aggregation reads the position of a row, and a key
\* is read only to tell it from other keys and to order it among them, so
\* of the tables that differ in the order of their rows or by an
\* order-preserving renaming of their keys one is taken.
LoadFrom(lists) ==
    /\ pc = "load"
    /\ IF fs.excel
       THEN \/ \E k \in DOMAIN lists, n \in 0..RowBound(fs, outFile) :
                 \E idx \in NonDecreasing(n, 1, Len(lists[k])) :
                    /\ FirstKeys(Frame(Columns, lists[k], idx))
                    /\ Loaded(Frame(Columns, lists[k], idx))
            \/ \E c \in Columns, n \in 0..MaxRowsFaulty :
                 Loaded(Frame(Columns \ {c}, <<DefaultRow>>,
                              [i \in 1..n |-> 1]))
       ELSE /\ Fail("load", "FileNotFoundError")
            /\ UNCHANGED <<df, total_rows>>
    /\ UNCHANGED <<fs, result1, result2, result3, html_content, outFile>>

Load == LoadFrom(RowLists)

\* the same step when no flag cell of the workbook is missing
LoadFlagsPresent == LoadFrom(FlagPresentRowLists)

\* result1 = analyze_agent_type_multimodal(df)
Analysis1 ==
    /\ pc = "analysis1"
    /\ \E r \in analyze_agent_type_multimodal(df) :
          IF r = KeyError
          THEN Fail("analysis1", KeyError) /\ UNCHANGED result1
          ELSE /\ result1' = r
               /\ pc' = "analysis2"
               /\ UNCHANGED <<error, failedAt>>
    /\ UNCHANGED <<fs, df, total_rows, result2, result3, html_content,
                   outFile>>

\* result2 = analyze_model_architecture_multimodal(df)
Analysis2 ==
    /\ pc = "analysis2"
    /\ \E r \in analyze_model_architecture_multimodal(df) :
          IF r = KeyError
          THEN Fail("analysis2", KeyError) /\ UNCHANGED result2
          ELSE /\ result2' = r
               /\ pc' = "analysis3"
               /\ UNCHANGED <<error, failedAt>>
    /\ UNCHANGED <<fs, df, total_rows, result1, result3, html_content,
                   outFile>>

\* result3 = analyze_task_category_bias_median(df)
Analysis3 ==
    /\ pc = "analysis3"
    /\ \E r \in analyze_task_category_bias_median(df) :
          IF r = KeyError
          THEN Fail("analysis3", KeyError) /\ UNCHANGED result3
          ELSE /\ result3' = r
               /\ pc' = "generate"
               /\ UNCHANGED <<error, failedAt>>
    /\ UNCHANGED <<fs, df, total_rows, result1, result2, html_content,
                   outFile>>

\* an assembly step that opens the output file before reading the payload
GenerateHtml_OpensFirst ==
    /\ pc = "generate"
    /\ outFile' = [state |-> "truncated", content |-> NoHtml]
    /\ IF fs.chartjs
       THEN /\ html_content' =
                  generate_html(result1, result2, result3, total_rows)
            /\ pc' = "open"
            /\ UNCHANGED <<error, failedAt>>
       ELSE /\ Fail("generate", "MissingResourceError")
            /\ UNCHANGED html_content
    /\ UNCHANGED <<fs, df, total_rows, result1, result2, result3>>

\* an assembly step that fails on an empty result
GenerateHtml_FailsOnEmpty ==
    /\ pc = "generate"
    /\ IF fs.chartjs /\ result1 # <<>>
       THEN /\ html_content' =
                  generate_html(result1, result2, result3, total_rows)
            /\ pc' = "open"
            /\ UNCHANGED <<error, failedAt>>
       ELSE /\ Fail("generate", "MissingResourceError")
            /\ UNCHANGED html_content
    /\ UNCHANGED <<fs, df, total_rows, result1, result2, result3, outFile>>

\* html_content = generate_html(result1, result2, result3, total_rows)
GenerateHtml ==
    /\ pc = "generate"
    /\ IF fs.chartjs
       THEN /\ html_content' =
                  generate_html(result1, result2, result3, total_rows)
            /\ pc' = "open"
            /\ UNCHANGED <<error, failedAt>>
       ELSE /\ Fail("generate", "MissingResourceError")
            /\ UNCHANGED html_content
    /\ UNCHANGED <<fs, df, total_rows, result1, result2, result3, outFile>>

\* with open(OUTPUT_HTML, 'w', encoding='utf-8') as f: creates or truncates
\* the file, or fails when the destination cannot be opened for writing
OpenOutput ==
    /\ pc = "open"
    /\ IF fs.output # "denied"
       THEN /\ outFile' = [state |-> "truncated", content |-> NoHtml]
            /\ pc' = "write"
            /\ UNCHANGED <<error, failedAt>>
       ELSE /\ Fail("open", "OSError")
            /\ UNCHANGED outFile
    /\ UNCHANGED <<fs, df, total_rows, result1, result2, result3,
                   html_content>>

\* f.write(html_content), then the file is closed; the write fails when the
\* device is full
WriteOutput ==
    /\ pc = "write"
    /\ IF fs.output # "full"
       THEN /\ outFile' = [state |-> "complete", content |-> html_content]
            /\ pc' = "done"
            /\ UNCHANGED <<error, failedAt>>
       ELSE /\ Fail("write", "OSError")
            /\ outFile' = [state |-> "partial", content |-> NoHtml]
    /\ UNCHANGED <<fs, df, total_rows, result1, result2, result3,
                   html_content>>

Next ==
    \/ Load
    \/ Analysis1
    \/ Analysis2
    \/ Analysis3
    \/ GenerateHtml
    \/ OpenOutput
    \/ WriteOutput

Spec == Init /\ [][Next]_vars

NextFlagsPresent ==
    \/ LoadFlagsPresent
    \/ Analysis1
    \/ Analysis2
    \/ Analysis3
    \/ GenerateHtml
    \/ OpenOutput
    \/ WriteOutput

SpecFlagsPresent == Init /\ [][NextFlagsPresent]_vars

\* ===================================================== properties
Steps == <<"load", "analysis1", "analysis2", "analysis3", "generate",
           "open", "write", "done">>
StepNo(p) == CHOOSE i \in DOMAIN Steps : Steps[i] = p

\* step number k has been taken successfully
Passed(k) ==
    IF pc = "failed" THEN StepNo(failedAt) > k ELSE StepNo(pc) > k

\* the run has ended, in success or in failure
Finished == pc \in {"done", "failed"}

\* the run has ended and the first, second, third aggregation had returned
Done1 == Finished /\ Passed(2)
Done2 == Finished /\ Passed(3)
Done3 == Finished /\ Passed(4)

Range(s) == {s[i] : i \in DOMAIN s}
Names(res) == {res[i].name : i \in DOMAIN res}
Abs(x) == IF x < 0 THEN -x ELSE x

\* the row numbers of the table whose cell in column col is k
RowsWith(col, k) == {i \in DOMAIN df.rows : df.rows[i][col] = k}

\* G: the number of distinct values of a grouping column
NumGroups(col) == Cardinality({df.rows[i][col] : i \in DOMAIN df.rows} \ {NA})

\* C1: each aggregation returns exactly min(3, G) records, G being the
\* number of distinct values of its grouping column in the table.
C1_LengthIsMin3G ==
    /\ Done1 => Len(result1) = Min(3, NumGroups("agent_type"))
    /\ Done2 => Len(result2) = Min(3, NumGroups("model_architecture"))
    /\ Done3 => Len(result3) = Min(3, NumGroups("task_category"))

C1_Witness ==
    /\ pc = "done"
    /\ NumGroups("agent_type") = 4 /\ Len(result1) = 3
    /\ NumGroups("model_architecture") = 1 /\ Len(result2) = 1

\* total and count of a record as the claim describes them
TotalAsClaimed(col, rec) == Cardinality(RowsWith(col, rec.name))
CountAsClaimed(col, rec) ==
    Cardinality({i \in RowsWith(col, rec.name) :
                    df.rows[i]["multimodal_capability"] = 1})

\* C2: in every record of the two proportion aggregations, total is the
\* number of rows of the table whose grouping column has the record's name
\* and count the number of those rows whose flag is true.
C2_TotalIsGroupSize ==
    /\ Done1 => \A i \in DOMAIN result1 :
                   /\ result1[i].total = TotalAsClaimed("agent_type", result1[i])
                   /\ result1[i].count = CountAsClaimed("agent_type", result1[i])
    /\ Done2 => \A i \in DOMAIN result2 :
                   /\ result2[i].total =
                         TotalAsClaimed("model_architecture", result2[i])
                   /\ result2[i].count =
                         CountAsClaimed("model_architecture", result2[i])

\* p (in 10^-2 percent) is count/total*100 rounded to 2 decimal places
IsRoundedProportion(rec) ==
    /\ rec.total # 0
    /\ rec.proportion # NaN
    /\ 0 <= rec.proportion /\ rec.proportion <= 10000
    /\ 2 * Abs(rec.proportion * rec.total - rec.count * 10000) <= rec.total

\* C3: in every record of the two proportion aggregations, 0 <= proportion
\* <= 100 and proportion is count/total*100 rounded to 2 decimal places;
\* total is never 0 and proportion is always a number.
C3_ProportionDefinedAndRounded ==
    /\ Done1 => \A i \in DOMAIN result1 : IsRoundedProportion(result1[i])
    /\ Done2 => \A i \in DOMAIN result2 : IsRoundedProportion(result2[i])

\* the groups of frame that were left out of result res
LeftOut(frame, res) == {j \in DOMAIN frame : frame[j].name \notin Names(res)}

\* res is made of distinct records of frame
TakenFrom(frame, res) ==
    /\ Range(res) \subseteq Range(frame)
    /\ Cardinality(Names(res)) = Len(res)

\* the claim's order: non-increasing, nothing left out is strictly greater
RankedAsClaimed(frame, res, by) ==
    /\ TakenFrom(frame, res)
    /\ \A i \in 1..(Len(res) - 1) : Geq(res[i][by], res[i + 1][by])
    /\ \A j \in LeftOut(frame, res) : \A i \in DOMAIN res :
          ~ (frame[j][by] # NaN /\ res[i][by] # NaN
             /\ frame[j][by] > res[i][by])

\* the order with undefined statistics last
RankedNaNLast(frame, res, by) ==
    /\ TakenFrom(frame, res)
    /\ \A i \in 1..(Len(res) - 1) :
          res[i + 1][by] = NaN \/ Geq(res[i][by], res[i + 1][by])
    /\ \A j \in LeftOut(frame, res) : \A i \in DOMAIN res :
          frame[j][by] # NaN => Geq(res[i][by], frame[j][by])

\* C4 (as stated): each result is the first min(3, G) records of all groups
\* in non-increasing order of the statistic: consecutive records are
\* non-increasing and no group left out is strictly greater than a returned
\* one.
C4_SortedDescending ==
    /\ Done1 => RankedAsClaimed(ProportionFrame(df, "agent_type"),
                                result1, "proportion")
    /\ Done2 => RankedAsClaimed(ProportionFrame(df, "model_architecture"),
                                result2, "proportion")
    /\ Done3 => RankedAsClaimed(MedianFrame(df, "task_category"),
                                result3, "median")

\* C4 (amended): groups with a defined statistic come first in
\* non-increasing order and groups with an undefined statistic (NaN) last:
\* the successor of a returned record is NaN or not greater, and a group
\* with a defined statistic is left out only if every returned record has a
\* defined statistic that is at least as large.
C4_SortedDescendingNaNLast ==
    /\ Done1 => RankedNaNLast(ProportionFrame(df, "agent_type"),
                              result1, "proportion")
    /\ Done2 => RankedNaNLast(ProportionFrame(df, "model_architecture"),
                              result2, "proportion")
    /\ Done3 => RankedNaNLast(MedianFrame(df, "task_category"),
                              result3, "median")

\* four task categories, two of them without any score: a number first,
\* an undefined median last, an undefined median left out
C4_Witness ==
    /\ pc = "done"
    /\ NumGroups("task_category") = 4
    /\ Len(result3) = 3
    /\ result3[1].median > result3[2].median
    /\ result3[2].median # NaN
    /\ result3[3].median = NaN
    /\ \E j \in LeftOut(MedianFrame(df, "task_category"), result3) :
          MedianFrame(df, "task_category")[j].median = NaN

\* the non-missing scores of the rows of task category k
ScoreRows(k) ==
    {i \in RowsWith("task_category", k) :
        df.rows[i]["bias_detection_score"] # NA}
Score(i) == df.rows[i]["bias_detection_score"]

\* the m-th smallest score of the rows in R (1 <= m <= |R|)
OrderStatistic(R, m) ==
    CHOOSE v \in {Score(i) : i \in R} :
        /\ Cardinality({i \in R : Score(i) < v}) < m
        /\ Cardinality({i \in R : Score(i) <= v}) >= m

\* r (in 10^-4) is the median of the scores of R rounded to 4 decimals:
\* twice the median is the sum of the two middle order statistics
IsRoundedMedian(R, r) ==
    LET n == Cardinality(R)
        twice == OrderStatistic(R, (n + 1) \div 2)
                   + OrderStatistic(R, n \div 2 + 1)
    IN  /\ r # NaN
        /\ Abs(r * 20 - twice) <= 10

\* C5: the median of a record of analyze_task_category_bias_median is the
\* standard median of the bias_detection_score values of the rows of its
\* task category (middle value for an odd number of values, average of the
\* two middle values for an even number), rounded to 4 decimal places; a
\* category without any score value has the undefined median NaN.
C5_MedianIsStandard ==
    Done3 => \A i \in DOMAIN result3 :
                LET R == ScoreRows(result3[i].name)
                IN  IF R = {} THEN result3[i].median = NaN
                    ELSE IsRoundedMedian(R, result3[i].median)

\* an even group whose two middle values differ, and an odd group
C5_Witness ==
    /\ pc = "done"
    /\ \E i \in DOMAIN result3 :
          LET R == ScoreRows(result3[i].name)
          IN  /\ Cardinality(R) = 2
              /\ OrderStatistic(R, 1) = 3
              /\ OrderStatistic(R, 2) = 15
              /\ result3[i].median = 1
    /\ \E i \in DOMAIN result3 : Cardinality(ScoreRows(result3[i].name)) = 1

Untouched == outFile.state \in {Absent, "stale"}

\* the steps run in the order of Steps, one at a time, or the run fails
LinearStep ==
    \/ pc' = "failed" /\ pc # "failed" /\ failedAt' = pc
    \/ pc # "failed" /\ pc # "done" /\ StepNo(pc') = StepNo(pc) + 1

\* the output file changes only in the open and write steps, after load,
\* the three aggregations and the assembly have succeeded
WrittenLast == (outFile' # outFile) => (pc \in {"open", "write"})

\* C6 (as stated): the steps run in the order load, three aggregations,
\* assemble, write, and a run that fails at any step leaves no partial or
\* inconsistent output file.
C6_NoPartialOutput ==
    pc = "failed" => Untouched

\* C6 (amended): the steps run in the order load, three aggregations,
\* assemble, write; the output file is opened or written only after all
\* earlier steps have succeeded; a failed run is never retried; a run that
\* fails before the write step leaves the output file as it was, and a run
\* that fails in the write step leaves it truncated or partial.
C6_LinearAndWrittenLast ==
    /\ [][LinearStep /\ WrittenLast]_vars
    /\ []((pc = "failed" /\ failedAt # "write") => Untouched)
    /\ []((pc = "failed" /\ failedAt = "write") => outFile.state = "partial")
    /\ [](~ Untouched => (Passed(5) /\ html_content # NoHtml))

\* a run stopped by a missing chart library with a stale output file kept
C6_Witness ==
    /\ pc = "failed"
    /\ failedAt = "generate"
    /\ outFile.state = "stale"
    /\ Len(df.rows) = 1

\* C7: generate_html fails with MissingResourceError if and only if the
\* chart-library source cannot be obtained; with the payload available it
\* returns a document for any three ranked results, empty ones included.
C7_FailsIffChartMissing ==
    /\ failedAt = "generate" => (~ fs.chartjs /\ error = "MissingResourceError")
    /\ Passed(5) => /\ fs.chartjs
                    /\ html_content =
                         generate_html(result1, result2, result3, total_rows)
                    /\ html_content # NoHtml
    /\ (pc = "failed" /\ Passed(4)) => (failedAt = "generate" <=> ~ fs.chartjs)

\* a document assembled from three empty results
C7_Witness ==
    /\ pc = "open"
    /\ result1 = <<>> /\ result2 = <<>> /\ result3 = <<>>
    /\ html_content.chartjs

EmptyTable == Passed(1) /\ df.rows = <<>> /\ df.columns = Columns

\* C8: for an empty table with all expected columns each aggregation
\* returns an empty list and the pipeline still completes: no aggregation
\* fails, the assembly fails only without the chart library, and the
\* document written has three empty data arrays and a record count of 0.
C8_EmptyTable ==
    EmptyTable =>
       /\ Done1 => result1 = <<>>
       /\ Done2 => result2 = <<>>
       /\ Done3 => result3 = <<>>
       /\ failedAt \notin {"analysis1", "analysis2", "analysis3"}
       /\ fs.chartjs => failedAt # "generate"
       /\ pc = "done" =>
             /\ outFile.state = "complete"
             /\ outFile.content.total_rows = 0
             /\ outFile.content.data1 = <<>>
             /\ outFile.content.data2 = <<>>
             /\ outFile.content.data3 = <<>>

C8_Witness ==
    /\ EmptyTable
    /\ pc = "done"
    /\ outFile.content.total_rows = 0

SumTotals(frame) == SumSeq([i \in DOMAIN frame |-> frame[i].total])

NoMissing(col) ==
    \A i \in DOMAIN df.rows :
       df.rows[i][col] # NA /\ df.rows[i]["multimodal_capability"] # NA

\* the rows of group k that have a flag, and those whose flag is true
FlaggedRows(col, k) ==
    {i \in RowsWith(col, k) : df.rows[i]["multimodal_capability"] # NA}
TrueRows(col, k) ==
    {i \in RowsWith(col, k) : df.rows[i]["multimodal_capability"] = 1}

\* no group of the missing key; a record counts rows of its own key only
KeyMissingIgnored(col) ==
    \A frame \in {ProportionFrame(df, col)} :
        /\ NA \notin Names(frame)
        /\ \A i \in DOMAIN frame :
              /\ frame[i].total = Cardinality(FlaggedRows(col, frame[i].name))
              /\ frame[i].count = Cardinality(TrueRows(col, frame[i].name))
        /\ SumTotals(frame) <= total_rows
        /\ SumTotals(frame) = total_rows <=> NoMissing(col)

====
